---- MODULE Spec2Model ----
(***************************************************************************)
(* Sub-pixel Game of Life (src/src/main.rs): the double-buffered grid      *)
(* GameOfLife, its parallel generation step tick(), the neighbour count,   *)
(* seeding through set_cell() and the sub-pixel renderer draw().           *)
(***************************************************************************)
EXTENDS Integers, Sequences, FiniteSets, TLC

VARIABLES
    width,          \* GameOfLife.width  (u32)
    height,         \* GameOfLife.height (u32)
    cells_current,  \* GameOfLife.cells_current: Vec<bool>, a function on 0..len-1
    cells_next,     \* GameOfLife.cells_next: Option<Vec<bool>>, <<>> or <<vec>>
    local_next,     \* tick's local `cells_next` between take() and Some(..): <<>> or <<vec>>
    pending,        \* indices whose par_iter_mut task of the running tick has not run yet
    pc,             \* "idle", "tick" (inside tick, tasks running) or "trap" (panicked)
    gen,            \* number of completed tick() calls
    seed,           \* cells_current as it was when the first tick() started
    snap,           \* cells_current as it was when the latest tick() started
    pixels,         \* the pixel buffer of the latest draw(): <<>> or <<buffer>>
    ret,            \* the latest call, its arguments and its outcome
    obs,            \* the tick() calls begun and the writes of the tasks of the latest
    drv             \* the locals of run(): paused, next_frame, the clock, the event handled

vars == <<width, height, cells_current, cells_next, local_next, pending, pc,
          gen, seed, snap, pixels, ret, obs, drv>>

-----------------------------------------------------------------------------
(* Bounds of the model *)

\* seeds of a grid with more than FullCells cells hold at most MaxLive live cells
MaxLive == 1
\* grids of at most FullCells cells are seeded with every content
FullCells == 9
\* tick() is started at most MaxGen times in a run
MaxGen == 2
\* set_cell arguments range up to Over beyond the last column and the last row
Over == 1
\* in the interleaved step, grids of at most TickFull cells are seeded with every
\* content and larger grids with at most TickLive live cells
TickFull == 6
TickLive == 1
\* with tick() as one step, seeds hold at most LifeLive live cells and tick()
\* is called at most LifeGen times
LifeLive == 4
LifeGen == 4
\* seeds of the grids that are drawn hold at most DrawLive live cells
DrawLive == 3
\* with set_cell called on any arguments, the grid holds at most SeedLive live
\* cells
SeedLive == 2
\* the number of values of the model's u32
WordMod == 65536

-----------------------------------------------------------------------------
(* u32 arithmetic, Option and Vec *)

\* A u32 holds WordMod values: the model's word, standing for 2^32, which is
\* beyond the model checker's integers. Casts and wrapping arithmetic reduce
\* modulo WordMod; every grid of the model is far smaller than the word.
ToU32(v) == v % WordMod

None == <<>>
Some(v) == <<v>>
Unwrap(o) == o[1]

Vec(n, v) == [i \in 0..(n - 1) |-> v]
VecLen(vec) == Cardinality(DOMAIN vec)
NumLive(cells) == Cardinality({i \in DOMAIN cells : cells[i]})

\* the call record kept in ret
Call(op, x, y, value, n, reads, panic) ==
    [op |-> op, x |-> x, y |-> y, value |-> value, n |-> n, reads |-> reads,
     panic |-> panic]

\* no tick() begun, no task has written
ObsInit == [begun |-> 0, writes |-> {}]

\* the write of task i to element j of buffer `buf` ("next" or "current")
Write(i, buf, j) == <<i, buf, j>>

\* run() has not been called
DrvOff == [hpc |-> "off"]

-----------------------------------------------------------------------------
(* GameOfLife::new *)

new(w, h) ==
    /\ width = w
    /\ height = h
    /\ cells_current = Vec(ToU32(w * h), FALSE)
    /\ cells_next = Some(Vec(ToU32(w * h), FALSE))
    /\ local_next = None
    /\ pending = {}
    /\ pc = "idle"
    /\ gen = 0
    /\ seed = <<>>
    /\ snap = <<>>
    /\ pixels = None
    /\ ret = Call("new", w, h, FALSE, 0, {}, FALSE)
    /\ obs = ObsInit
    /\ drv = DrvOff

-----------------------------------------------------------------------------
(* GameOfLife::index and GameOfLife::set_cell *)

\* (x + y * self.width) as usize, computed in u32
index(x, y) == ToU32(x + y * width)

\* IndexOutcomes with the row stride taken from the height
IndexOutcomesByHeight(x, y) == {ToU32(x + y * height)}

\* The outcomes of the u32 expression x + y * self.width in set_cell: the value
\* when it fits; when it does not, a panic (overflow checks on, marked -1) or
\* the wrapped value (overflow checks off).
IndexOutcomes(x, y) ==
    IF x + y * width < WordMod /\ y * width < WordMod
    THEN {x + y * width}
    ELSE {-1, ToU32(x + y * width)}

\* the argument values tried for a coordinate of extent n
Coords(n) == (0..(n - 1 + Over)) \cup {WordMod - 1}

set_cell(x, y, value) ==
    /\ pc = "idle"
    /\ \E i \in IndexOutcomes(x, y) :
        IF i \in DOMAIN cells_current
        THEN /\ cells_current' = [cells_current EXCEPT ![i] = value]
             /\ ret' = Call("set_cell", x, y, value, 0, {i}, FALSE)
             /\ pc' = pc
        ELSE /\ cells_current' = cells_current
             /\ ret' = Call("set_cell", x, y, value, 0, {}, TRUE)
             /\ pc' = "trap"
    /\ UNCHANGED <<obs, drv, width, height, cells_next, local_next, pending, gen, seed,
                   snap, pixels>>

\* Seeding comes first, as in main(): the set_cell calls precede run(), so none
\* follows a tick, a query or a draw.
Seeding == gen = 0 /\ ret.op \in {"new", "set_cell"}

\* set_cell with any arguments, in range or not, while the grid holds fewer
\* than `cap` live cells
SetCell(cap) ==
    /\ Seeding
    /\ NumLive(cells_current) < cap
    /\ \E x \in Coords(width), y \in Coords(height), value \in BOOLEAN :
        set_cell(x, y, value)

\* set_cell as main() calls it: game.set_cell(x, y, true) with coordinates of
\* the grid, while the seed holds fewer than `cap` live cells
SeedCell(cap) ==
    /\ Seeding
    /\ NumLive(cells_current) < cap
    /\ \E x \in 0..(width - 1), y \in 0..(height - 1) : set_cell(x, y, TRUE)

-----------------------------------------------------------------------------
(* GameOfLife::count_alive_neighbors *)

\* for dy in -1..=1 { for dx in -1..=1 { ... } }
Offsets == (-1..1) \X (-1..1)

\* NeighborX on a torus: the offset taken modulo the width
NeighborXTorus(x, d) == (x + d[1] + width) % width

\* nx = (x as i32 + dx) as u32, ny = (y as i32 + dy) as u32
NeighborX(x, d) == ToU32(x + d[1])
NeighborY(y, d) == ToU32(y + d[2])

\* InBounds without the skip of the centre cell
InBoundsCentre(x, y, d) ==
    /\ NeighborX(x, d) < width
    /\ NeighborY(y, d) < height

\* the offsets that pass `dx == 0 && dy == 0 { continue }` and the bounds test
\* nx < self.width && ny < self.height, after which the buffer is indexed
InBounds(x, y, d) ==
    /\ ~(d[1] = 0 /\ d[2] = 0)
    /\ NeighborX(x, d) < width
    /\ NeighborY(y, d) < height

\* the indices of the buffer the call reads
NeighborReads(x, y) ==
    {index(NeighborX(x, d), NeighborY(y, d)) : d \in {e \in Offsets : InBounds(x, y, e)}}

\* the count over `cells`, one increment for each offset whose cell is alive
CountAlive(cells, x, y) ==
    Cardinality({d \in Offsets :
        /\ InBounds(x, y, d)
        /\ index(NeighborX(x, d), NeighborY(y, d)) \in DOMAIN cells
        /\ cells[index(NeighborX(x, d), NeighborY(y, d))]})

count_alive_neighbors(x, y) == CountAlive(cells_current, x, y)

\* a call of count_alive_neighbors(x, y) on the seeded grid
CountQuery ==
    /\ pc = "idle"
    /\ \E x \in 0..(width - 1), y \in 0..(height - 1) :
        IF NeighborReads(x, y) \subseteq DOMAIN cells_current
        THEN /\ ret' = Call("count", x, y, FALSE, count_alive_neighbors(x, y),
                            NeighborReads(x, y), FALSE)
             /\ pc' = pc
        ELSE /\ ret' = Call("count", x, y, FALSE, 0, NeighborReads(x, y), TRUE)
             /\ pc' = "trap"
    /\ UNCHANGED <<obs, drv, width, height, cells_current, cells_next, local_next, pending,
                   gen, seed, snap, pixels>>

-----------------------------------------------------------------------------
(* App::tick for GameOfLife *)

\* Rule without the arm (false, 3) => true
RuleNoBirth(alive, n) == alive /\ n \in {2, 3}

\* Rule without the arm (true, 3) => true
RuleNoSurvive3(alive, n) == (alive /\ n = 2) \/ (~alive /\ n = 3)

\* match (self.cells_current[index], alive_neighbors) { ... }
Rule(alive, n) ==
    CASE alive /\ n = 2 -> TRUE
      [] alive /\ n = 3 -> TRUE
      [] ~alive /\ n = 3 -> TRUE
      [] OTHER -> FALSE

\* CellY dividing by the height
CellYByHeight(i) == ToU32(i) \div height

\* x = index as u32 % width, y = index as u32 / width
CellX(i) == ToU32(i) % width
CellY(i) == ToU32(i) \div width

\* the value the task of index i writes, read from the current buffer
CellValue(i) == Rule(cells_current[i], count_alive_neighbors(CellX(i), CellY(i)))

\* let mut cells_next = self.cells_next.take().unwrap(): the next buffer moves
\* to the local and the field is left None; the tasks are spawned
TickBegin ==
    /\ pc = "idle"
    /\ gen < MaxGen
    /\ IF cells_next = None
       THEN /\ pc' = "trap"
            /\ UNCHANGED <<cells_next, local_next, pending, seed, snap, obs>>
       ELSE /\ pc' = "tick"
            /\ obs' = [begun |-> obs.begun + 1, writes |-> {}]
            /\ local_next' = cells_next
            /\ cells_next' = None
            /\ pending' = DOMAIN Unwrap(cells_next)
            /\ snap' = cells_current
            /\ seed' = IF gen = 0 THEN cells_current ELSE seed
    /\ ret' = Call("tick", 0, 0, FALSE, 0, {}, cells_next = None)
    /\ UNCHANGED <<drv, width, height, cells_current, gen, pixels>>

\* the task of index i, writing the cell of the current buffer as well
TickCellInPlace(i) ==
    /\ pc = "tick"
    /\ i \in pending
    /\ local_next' = Some([Unwrap(local_next) EXCEPT ![i] = CellValue(i)])
    /\ cells_current' = [cells_current EXCEPT ![i] = CellValue(i)]
    /\ obs' = [obs EXCEPT !.writes = @ \cup {Write(i, "next", i), Write(i, "current", i)}]
    /\ pending' = pending \ {i}
    /\ UNCHANGED <<drv, width, height, cells_next, pc, gen, seed, snap, pixels, ret>>

\* the task of index i, reading the cells already written in this step from
\* the buffer being written
TickCellReadsNext(i) ==
    /\ pc = "tick"
    /\ i \in pending
    /\ local_next' = Some([Unwrap(local_next) EXCEPT ![i] =
            Rule(cells_current[i],
                 CountAlive([j \in DOMAIN cells_current |->
                                IF j \in pending THEN cells_current[j]
                                ELSE Unwrap(local_next)[j]],
                            CellX(i), CellY(i)))])
    /\ obs' = [obs EXCEPT !.writes = @ \cup {Write(i, "next", i)}]
    /\ pending' = pending \ {i}
    /\ UNCHANGED <<drv, width, height, cells_current, cells_next, pc, gen, seed, snap,
                   pixels, ret>>

\* the task of index i, writing the element of its column in the first row
TickCellColumn(i) ==
    /\ pc = "tick"
    /\ i \in pending
    /\ local_next' = Some([Unwrap(local_next) EXCEPT ![CellX(i)] = CellValue(i)])
    /\ obs' = [obs EXCEPT !.writes = @ \cup {Write(i, "next", CellX(i))}]
    /\ pending' = pending \ {i}
    /\ UNCHANGED <<drv, width, height, cells_current, cells_next, pc, gen, seed, snap,
                   pixels, ret>>

\* the task of index i, never done: it writes its element and stays scheduled
TickCellSpin(i) ==
    /\ pc = "tick"
    /\ i \in pending
    /\ local_next' = Some([Unwrap(local_next) EXCEPT ![i] = CellValue(i)])
    /\ obs' = [obs EXCEPT !.writes = @ \cup {Write(i, "next", i)}]
    /\ UNCHANGED <<drv, width, height, cells_current, cells_next, pending, pc, gen, seed,
                   snap, pixels, ret>>

\* one task of par_iter_mut().enumerate().for_each: (index, cell) writes *cell,
\* the element of the local buffer at index; the tasks run in any order
TickCell(i) ==
    /\ pc = "tick"
    /\ i \in pending
    /\ IF NeighborReads(CellX(i), CellY(i)) \subseteq DOMAIN cells_current
       THEN /\ local_next' = Some([Unwrap(local_next) EXCEPT ![i] = CellValue(i)])
            /\ obs' = [obs EXCEPT !.writes = @ \cup {Write(i, "next", i)}]
            /\ pending' = pending \ {i}
            /\ pc' = pc
       ELSE /\ pc' = "trap"
            /\ UNCHANGED <<local_next, pending, obs>>
    /\ UNCHANGED <<drv, width, height, cells_current, cells_next, gen, seed, snap,
                   pixels, ret>>

TickTask == \E i \in pending : TickCell(i)

\* TickRestore without the join: it does not wait for the tasks
TickRestoreEarly ==
    /\ pc = "tick"
    /\ cells_next' = local_next
    /\ local_next' = None
    /\ pc' = "restored"
    /\ UNCHANGED <<obs, drv, width, height, cells_current, pending, gen, seed, snap,
                   pixels, ret>>

\* for_each has returned: self.cells_next = Some(cells_next)
TickRestore ==
    /\ pc = "tick"
    /\ pending = {}
    /\ cells_next' = local_next
    /\ local_next' = None
    /\ pc' = "restored"
    /\ UNCHANGED <<obs, drv, width, height, cells_current, pending, gen, seed, snap,
                   pixels, ret>>

\* TickSwap as a move: self.cells_current = self.cells_next.take().unwrap()
TickMove ==
    /\ pc = "restored"
    /\ cells_current' = Unwrap(cells_next)
    /\ cells_next' = None
    /\ pc' = "idle"
    /\ gen' = gen + 1
    /\ UNCHANGED <<obs, drv, width, height, local_next, pending, seed, snap, pixels, ret>>

\* std::mem::swap(&mut self.cells_current, self.cells_next.as_mut().unwrap())
TickSwap ==
    /\ pc = "restored"
    /\ cells_current' = Unwrap(cells_next)
    /\ cells_next' = Some(cells_current)
    /\ pc' = "idle"
    /\ gen' = gen + 1
    /\ UNCHANGED <<obs, drv, width, height, local_next, pending, seed, snap, pixels, ret>>

\* tick() as one step of its caller: every cell of the next buffer is written
\* from the current buffer, then the buffers are exchanged
Tick ==
    /\ pc = "idle"
    /\ gen < LifeGen
    /\ cells_next # None
    /\ cells_current' = [i \in DOMAIN Unwrap(cells_next) |-> CellValue(i)]
    /\ cells_next' = Some(cells_current)
    /\ gen' = gen + 1
    /\ snap' = cells_current
    /\ seed' = IF gen = 0 THEN cells_current ELSE seed
    /\ ret' = Call("tick", 0, 0, FALSE, 0, {}, FALSE)
    /\ obs' = [begun |-> obs.begun + 1,
               writes |-> {Write(i, "next", i) : i \in DOMAIN Unwrap(cells_next)}]
    /\ UNCHANGED <<drv, width, height, local_next, pending, pc, pixels>>

-----------------------------------------------------------------------------
(* App::draw for GameOfLife *)

\* A pixel is a packed u32, 0xAARRGGBB, kept as its two 16-bit halves
\* <<0xAARR, 0xGGBB>>; Add32 is u32 addition on the halves, with the carry.
Add32(a, b) ==
    LET lo == a[2] + b[2]
        hi == a[1] + b[1] + (lo \div 65536)
    IN  <<hi % 65536, lo % 65536>>

Opaque == <<65280, 0>>      \* 0xFF000000
Red    == <<255, 0>>        \* 0xFF0000
Green  == <<0, 65280>>      \* 0xFF00
Blue   == <<0, 255>>        \* 0xFF

\* PixelX without the factor 3: one cell a pixel
PixelXPlain(p) == ToU32(p) % width

\* x = (index * 3) as u32 % self.width, y = (index * 3) as u32 / self.width
PixelX(p) == ToU32(p * 3) % width
PixelY(p) == ToU32(p * 3) \div width

\* the indices of the current buffer the task of pixel p reads
PixelReads(p) ==
    {index(PixelX(p), PixelY(p)), index(PixelX(p) + 1, PixelY(p)),
     index(PixelX(p) + 2, PixelY(p))}

\* PixelColor with the red and the blue cell exchanged
PixelColorBGR(p) ==
    LET c0 == Opaque
        c1 == IF cells_current[index(PixelX(p) + 2, PixelY(p))]
              THEN Add32(c0, Red) ELSE c0
        c2 == IF cells_current[index(PixelX(p) + 1, PixelY(p))]
              THEN Add32(c1, Green) ELSE c1
    IN  IF cells_current[index(PixelX(p), PixelY(p))]
        THEN Add32(c2, Blue) ELSE c2

\* PixelColor sampling the next buffer in place of the current one
PixelColorFromNext(p) ==
    LET c0 == Opaque
        c1 == IF Unwrap(cells_next)[index(PixelX(p), PixelY(p))]
              THEN Add32(c0, Red) ELSE c0
        c2 == IF Unwrap(cells_next)[index(PixelX(p) + 1, PixelY(p))]
              THEN Add32(c1, Green) ELSE c1
    IN  IF Unwrap(cells_next)[index(PixelX(p) + 2, PixelY(p))]
        THEN Add32(c2, Blue) ELSE c2

\* the colour the task of pixel p writes
PixelColor(p) ==
    LET c0 == Opaque
        c1 == IF cells_current[index(PixelX(p), PixelY(p))]
              THEN Add32(c0, Red) ELSE c0
        c2 == IF cells_current[index(PixelX(p) + 1, PixelY(p))]
              THEN Add32(c1, Green) ELSE c1
    IN  IF cells_current[index(PixelX(p) + 2, PixelY(p))]
        THEN Add32(c2, Blue) ELSE c2

\* draw(pixels) on a buffer of n pixels: one task for each pixel; a remainder by
\* a zero width or an index beyond the current buffer panics
draw(n) ==
    /\ pc = "idle"
    /\ IF n > 0 /\ (width = 0 \/ \E p \in 0..(n - 1) :
                                    ~(PixelReads(p) \subseteq DOMAIN cells_current))
       THEN /\ pc' = "trap"
            /\ pixels' = pixels
            /\ ret' = Call("draw", n, 0, FALSE, 0, {}, TRUE)
       ELSE /\ pc' = pc
            /\ pixels' = Some([p \in 0..(n - 1) |-> PixelColor(p)])
            /\ ret' = Call("draw", n, 0, FALSE, 0, {}, FALSE)
    /\ UNCHANGED <<obs, drv, width, height, cells_current, cells_next, local_next, pending,
                   gen, seed, snap>>

\* the surface run() hands to draw: as main() sizes the window, a third of the
\* grid's width by the grid's height
ScreenPixels == (width \div 3) * height

Redraw == draw(ScreenPixels)

-----------------------------------------------------------------------------
(* Seeding and neighbour counting on grids of several sizes *)

CountDims == {<<1, 1>>, <<2, 2>>, <<3, 2>>, <<3, 3>>, <<4, 4>>, <<5, 5>>}

InitCount == \E d \in CountDims : new(d[1], d[2])

\* every content of a grid of at most FullCells cells, at most MaxLive live
\* cells on a larger grid
CountCap ==
    IF VecLen(cells_current) <= FullCells THEN VecLen(cells_current) ELSE MaxLive

CountSeed == SeedCell(CountCap)

NextCount == CountSeed \/ CountQuery

SpecCount == InitCount /\ [][NextCount]_vars

-----------------------------------------------------------------------------
(* Conway's rule as the reference the code is compared with *)

\* the cells of the grid adjacent to (x, y), diagonals included
RefNeighbors(x, y) ==
    {c \in (0..(width - 1)) \X (0..(height - 1)) :
        /\ c # <<x, y>>
        /\ c[1] - x \in -1..1
        /\ c[2] - y \in -1..1}

\* the number of live cells of `cells` adjacent to (x, y)
RefCount(cells, x, y) ==
    Cardinality({c \in RefNeighbors(x, y) : cells[c[1] + c[2] * width]})

\* the live cells of the current buffer are exactly the cells of S
OnlyLive(S) ==
    \A x \in 0..(width - 1), y \in 0..(height - 1) :
        cells_current[x + y * width] <=> <<x, y>> \in S

-----------------------------------------------------------------------------
(* Claims about count_alive_neighbors *)

\* C2: count_alive_neighbors(x, y) returns, for every in-range (x, y) and every
\* grid content, the number of live cells among the adjacent cells inside the
\* grid, the cell itself never counted and each neighbour once; on a 5x5 grid
\* whose only live cell is (2,2) it returns 1 at the 8 neighbours of (2,2) and
\* 0 at every cell at distance two.
C2_NeighborCount ==
    ret.op = "count" =>
        /\ ~ret.panic
        /\ ret.n = RefCount(cells_current, ret.x, ret.y)
        /\ (width = 5 /\ height = 5 /\ OnlyLive({<<2, 2>>})) =>
              ret.n = IF <<ret.x, ret.y>> \in
                          ((1..3) \X (1..3)) \ {<<2, 2>>} THEN 1 ELSE 0

C2_Witness ==
    /\ ret.op = "count"
    /\ width = 5 /\ height = 5 /\ OnlyLive({<<2, 2>>})
    /\ ret.x = 3 /\ ret.y = 1 /\ ret.n = 1

\* C3: the grid has hard edges. Every index the neighbour count reads is the
\* index of an adjacent cell inside the grid: an offset that leaves
\* [0,width) x [0,height) is rejected before the buffer is indexed, and nothing
\* wraps. A single live cell at (0,0) on an NxN grid, N >= 2, adds to the count
\* of (1,0), (0,1) and (1,1) and of no other cell.
C3_HardEdges ==
    ret.op = "count" =>
        /\ ~ret.panic
        /\ ret.reads \subseteq DOMAIN cells_current
        /\ ret.reads = {c[1] + c[2] * width : c \in RefNeighbors(ret.x, ret.y)}
        /\ (width = height /\ width >= 2 /\ OnlyLive({<<0, 0>>})) =>
              ret.n = IF <<ret.x, ret.y>> \in {<<1, 0>>, <<0, 1>>, <<1, 1>>}
                      THEN 1 ELSE 0

C3_Witness ==
    /\ ret.op = "count"
    /\ width = 4 /\ height = 4 /\ OnlyLive({<<0, 0>>})
    /\ ret.x = 3 /\ ret.y = 3 /\ ret.n = 0

-----------------------------------------------------------------------------
(* The generation step with its tasks interleaved, on small grids *)

TickDims == {<<0, 0>>, <<1, 1>>, <<2, 2>>, <<3, 2>>, <<4, 2>>, <<3, 3>>}

\* every content of a grid of at most TickFull cells, at most TickLive live
\* cells on a larger grid
TickCap ==
    IF VecLen(cells_current) <= TickFull THEN VecLen(cells_current) ELSE TickLive

TickSeed == SeedCell(TickCap)

InitTick == \E d \in TickDims : new(d[1], d[2])

NextTick == TickSeed \/ TickBegin \/ TickTask \/ TickRestore \/ TickSwap

SpecTick == InitTick /\ [][NextTick]_vars

-----------------------------------------------------------------------------
(* Patterns over generations, tick() taken as one step *)

LifeDims == {<<3, 3>>, <<4, 3>>, <<4, 4>>}

LifeSeed == SeedCell(LifeLive)

InitLife == \E d \in LifeDims : new(d[1], d[2])

NextLife == LifeSeed \/ Tick

SpecLife == InitLife /\ [][NextLife]_vars

-----------------------------------------------------------------------------
(* Rendering the grid after seeding and between generations *)

DrawDims == {<<3, 1>>, <<3, 2>>, <<4, 2>>, <<6, 2>>}

DrawSeed == SeedCell(DrawLive)

InitDraw == \E d \in DrawDims : new(d[1], d[2])

NextDraw == DrawSeed \/ Tick \/ Redraw

SpecDraw == InitDraw /\ [][NextDraw]_vars

-----------------------------------------------------------------------------
(* Seeding with any arguments *)

SeedDims == {<<2, 2>>, <<3, 2>>, <<3, 3>>}

SeedAny == SetCell(SeedLive)

InitSeed == \E d \in SeedDims : new(d[1], d[2])

NextSeed == SeedAny \/ Tick

SpecSeed == InitSeed /\ [][NextSeed]_vars

-----------------------------------------------------------------------------
(* Claims about the generation step *)

\* Conway's rule for the cell of index i of `cells`
RefNext(cells, i) ==
    LET n == RefCount(cells, i % width, i \div width)
    IN  \/ cells[i] /\ n \in {2, 3}
        \/ ~cells[i] /\ n = 3

\* the next buffer, in the field or in tick's local
NextBuf == IF cells_next # None THEN Unwrap(cells_next) ELSE Unwrap(local_next)

\* C1: one tick() applies Conway's rule to every cell simultaneously: for every
\* index i in [0, width*height), current[i] after the call is true exactly when
\* the cell was alive before the call with 2 or 3 live neighbours before the
\* call, or was dead before the call with exactly 3.
C1_ConwayRule ==
    (pc = "idle" /\ gen > 0) =>
        /\ DOMAIN cells_current = 0..(width * height - 1)
        /\ \A i \in 0..(width * height - 1) :
              cells_current[i] = RefNext(snap, i)

C1_Witness ==
    /\ pc = "idle" /\ gen > 0
    /\ \E i, j, k \in DOMAIN cells_current :
        /\ ~snap[i] /\ cells_current[i]
        /\ snap[j] /\ ~cells_current[j]
        /\ snap[k] /\ cells_current[k]

\* C4: buffer swap isolation. While a tick() runs, the current buffer is the
\* one the call started with (no task modifies it), and every value a task has
\* written to the next buffer is Conway's rule on the cells the current buffer
\* held at the start of the call, whatever was written before it in the call.
C4_SwapIsolation ==
    pc \in {"tick", "restored"} =>
        /\ cells_current = snap
        /\ \A i \in (DOMAIN NextBuf) \ pending : NextBuf[i] = RefNext(snap, i)

C4_Witness ==
    /\ pc = "tick"
    /\ \E i \in (DOMAIN NextBuf) \ pending, j \in pending :
        /\ NextBuf[i] # cells_current[i]
        /\ <<i % width, i \div width>> \in RefNeighbors(j % width, j \div width)

\* the grid after one step with the cells computed one after the other, each
\* from `cells`
SeqStep(cells) ==
    [i \in DOMAIN cells |-> Rule(cells[i], CountAlive(cells, CellX(i), CellY(i)))]

RECURSIVE SeqRun(_, _)
SeqRun(cells, n) == IF n = 0 THEN cells ELSE SeqRun(SeqStep(cells), n - 1)

\* C5: determinism under parallelism. For given dimensions and seed the
\* current buffer after N tick() calls is the same in every order and
\* interleaving of the tasks of each step: it is the buffer N sequential steps
\* yield from the seed.
C5_Determinism ==
    (pc = "idle" /\ gen > 0) => cells_current = SeqRun(seed, gen)

C5_Witness ==
    /\ pc = "idle" /\ gen = 2
    /\ cells_current # seed
    /\ cells_current # snap

\* C9: in every reachable state, the states inside a tick() included, both
\* buffers exist and hold width*height cells, each a boolean; inside a tick()
\* the next buffer is the one held by the call.
C9_BufferSizes ==
    /\ DOMAIN cells_current = 0..(width * height - 1)
    /\ \A i \in DOMAIN cells_current : cells_current[i] \in BOOLEAN
    /\ (cells_next = None) # (local_next = None)
    /\ DOMAIN NextBuf = 0..(width * height - 1)
    /\ \A i \in DOMAIN NextBuf : NextBuf[i] \in BOOLEAN

C9_Witness ==
    /\ pc = "tick" /\ gen = 1
    /\ cells_next = None
    /\ pending # {} /\ pending # DOMAIN cells_current
    /\ VecLen(NextBuf) = 6

-----------------------------------------------------------------------------
(* Claims about patterns *)

\* the coordinates of the live cells of `cells`
LiveSet(cells) ==
    {c \in (0..(width - 1)) \X (0..(height - 1)) : cells[c[1] + c[2] * width]}

\* the 2x2 block with top-left cell (bx, by)
Block(bx, by) == {<<bx, by>>, <<bx + 1, by>>, <<bx, by + 1>>, <<bx + 1, by + 1>>}

\* the three-cell lines centred on (cx, cy)
HLine(cx, cy) == {<<cx - 1, cy>>, <<cx, cy>>, <<cx + 1, cy>>}
VLine(cx, cy) == {<<cx, cy - 1>>, <<cx, cy>>, <<cx, cy + 1>>}

Grid == (0..(width - 1)) \X (0..(height - 1))

\* C6: still life. If the seed holds exactly a 2x2 block of live cells, at any
\* place of the grid, edges and corners included, the current buffer after any
\* number of tick() calls is identical to the seed.
C6_BlockStillLife ==
    (pc = "idle" /\ gen > 0) =>
        \A bx \in 0..(width - 2), by \in 0..(height - 2) :
            LiveSet(seed) = Block(bx, by) => cells_current = seed

C6_Witness ==
    /\ pc = "idle" /\ gen = LifeGen
    /\ width = 4 /\ height = 4
    /\ LiveSet(seed) = Block(1, 1)
    /\ LiveSet(cells_current) = Block(1, 1)

\* the live cells a blinker seeded as line `from` with the perpendicular line
\* `to` must show after gen generations
Blinks(from, to) ==
    LiveSet(seed) = from =>
        LiveSet(cells_current) = IF gen % 2 = 1 THEN to ELSE from

\* C7 as stated: on a grid of at least 3x3 whose only live cells are the three
\* cells of a blinker, wherever it lies, one tick() yields the perpendicular
\* three-cell line through the same centre and the next restores the seed.
C7_AnyBlinker ==
    (pc = "idle" /\ gen > 0 /\ width >= 3 /\ height >= 3) =>
        \A c \in Grid :
            /\ Blinks(HLine(c[1], c[2]), VLine(c[1], c[2]))
            /\ Blinks(VLine(c[1], c[2]), HLine(c[1], c[2]))

\* C7, amended: on a grid of at least 3x3 whose only live cells are the three
\* cells of a blinker whose perpendicular line through the same centre lies
\* inside the grid, the current buffer after g tick() calls is that
\* perpendicular line when g is odd and the seed when g is even.
C7_Blinker ==
    (pc = "idle" /\ gen > 0 /\ width >= 3 /\ height >= 3) =>
        \A c \in Grid :
            /\ VLine(c[1], c[2]) \subseteq Grid =>
                  Blinks(HLine(c[1], c[2]), VLine(c[1], c[2]))
            /\ HLine(c[1], c[2]) \subseteq Grid =>
                  Blinks(VLine(c[1], c[2]), HLine(c[1], c[2]))

C7_Witness ==
    /\ pc = "idle" /\ gen = 3
    /\ width = 3 /\ height = 3
    /\ LiveSet(seed) = VLine(1, 1)
    /\ LiveSet(cells_current) = HLine(1, 1)
    /\ LiveSet(snap) = VLine(1, 1)

-----------------------------------------------------------------------------
(* Claims about draw *)

\* the channels of a packed pixel
Alpha(c) == c[1] \div 256
RedOf(c) == c[1] % 256
GreenOf(c) == c[2] \div 256
BlueOf(c) == c[2] % 256

\* the cell addressed (x, y), at linear index x + y*width of the current buffer
CellAt(x, y) == cells_current[x + y * width]

\* full intensity when the cell is alive, none otherwise
Channel(alive) == IF alive THEN 255 ELSE 0

\* C8: sub-pixel mapping. After draw(pixels), for every pixel index p, with
\* x = (3p) mod width and y = (3p) div width, the pixel has alpha 0xFF, red
\* 0xFF or 0 as cell (x,y) is alive or dead, green as cell (x+1,y) and blue as
\* cell (x+2,y), so each cell drives its own channel only. With cells
\* (0,0), (2,0) alive and (1,0) dead pixel 0 is 0xFFFF00FF; with (1,0) alive
\* too it is 0xFFFFFFFF.
C8_SubPixel ==
    (ret.op = "draw" /\ ~ret.panic) =>
        /\ pixels # None
        /\ DOMAIN Unwrap(pixels) = 0..(ret.x - 1)
        /\ \A p \in DOMAIN Unwrap(pixels) :
              LET x == (3 * p) % width
                  y == (3 * p) \div width
                  c == Unwrap(pixels)[p]
              IN  /\ Alpha(c) = 255
                  /\ RedOf(c) = Channel(CellAt(x, y))
                  /\ GreenOf(c) = Channel(CellAt(x + 1, y))
                  /\ BlueOf(c) = Channel(CellAt(x + 2, y))
        /\ (ret.x > 0 /\ CellAt(0, 0) /\ ~CellAt(1, 0) /\ CellAt(2, 0)) =>
              Unwrap(pixels)[0] = <<65535, 255>>
        /\ (ret.x > 0 /\ CellAt(0, 0) /\ CellAt(1, 0) /\ CellAt(2, 0)) =>
              Unwrap(pixels)[0] = <<65535, 65535>>

C8_Witness ==
    /\ ret.op = "draw" /\ ~ret.panic
    /\ width = 6 /\ height = 2
    /\ CellAt(0, 0) /\ ~CellAt(1, 0) /\ CellAt(2, 0)
    /\ Unwrap(pixels)[0] = <<65535, 255>>
    /\ \E p \in DOMAIN Unwrap(pixels) : Unwrap(pixels)[p] = <<65280, 65280>>

-----------------------------------------------------------------------------
(* Claims about set_cell *)

\* C10: out-of-range seeding fails loudly. Every call set_cell(x, y, v) with
\* x >= width or y >= height traps and writes no cell.
C10_OutOfRangeTraps ==
    (ret.op = "set_cell" /\ (ret.x >= width \/ ret.y >= height)) =>
        /\ ret.panic
        /\ pc = "trap"
        /\ ret.reads = {}

-----------------------------------------------------------------------------
(* Construction: main calls GameOfLife::new before anything else.  new checks   *)
(* nothing: it multiplies width by height in u32 and allocates two buffers of   *)
(* that many cells.  Where the product does not fit in the word, a build with   *)
(* overflow checks panics and a build without them wraps.                       *)

\* a word-sized dimension whose product with itself is exactly the word modulus
NewBig == 256

NewDims == {<<0, 0>>, <<0, 2>>, <<3, 0>>, <<3, 1>>, <<3, 2>>, <<4, 2>>, <<5, 1>>,
            <<6, 1>>, <<NewBig, NewBig>>}

\* before main has constructed the grid
InitNew ==
    /\ width = 0
    /\ height = 0
    /\ cells_current = Vec(0, FALSE)
    /\ cells_next = None
    /\ local_next = None
    /\ pending = {}
    /\ pc = "start"
    /\ gen = 0
    /\ seed = None
    /\ snap = None
    /\ pixels = None
    /\ ret = Call("main", 0, 0, FALSE, 0, {}, FALSE)
    /\ obs = ObsInit
    /\ drv = DrvOff

\* the state left by GameOfLife::new(w, h)
Constructed(w, h) ==
    /\ width' = w
    /\ height' = h
    /\ cells_current' = Vec(ToU32(w * h), FALSE)
    /\ cells_next' = Some(Vec(ToU32(w * h), FALSE))
    /\ pc' = "idle"
    /\ ret' = Call("new", w, h, FALSE, 0, {}, FALSE)
    /\ UNCHANGED <<obs, drv, local_next, pending, gen, seed, snap, pixels>>

\* GameOfLife::new(w, h) called by main
Construct ==
    /\ pc = "start"
    /\ \E d \in NewDims :
         \/ Constructed(d[1], d[2])
         \/ /\ d[1] * d[2] >= WordMod
            /\ pc' = "trap"
            /\ ret' = Call("new", d[1], d[2], FALSE, 0, {}, TRUE)
            /\ UNCHANGED <<obs, drv, width, height, cells_current, cells_next, local_next,
                           pending, gen, seed, snap, pixels>>

NewCap == 2

\* main seeds a few cells of a grid that has one (the traps of set_cell are SpecSeed's)
NewSeed == VecLen(cells_current) = width * height /\ SeedCell(NewCap)

NextNew == Construct \/ NewSeed \/ Tick \/ Redraw

SpecNew == InitNew /\ [][NextNew]_vars

\* the dimensions the construction is to accept
ValidDims(w, h) == w > 0 /\ h > 0 /\ w * h < WordMod /\ w % 3 = 0

\* C11: construction refuses invalid dimensions: no grid whose width or height is zero,
\* whose cell count overflows the word or whose width is not a multiple of 3 ever
\* reaches tick() or draw().
C11_InvalidRefused ==
    ret.op \in {"tick", "draw"} => ValidDims(width, height)

-----------------------------------------------------------------------------
(* Rendering to the surface of the window.  run() resizes the surface to the    *)
(* window's inner size at every redraw and hands draw a buffer of that many     *)
(* pixels.  main asks for a window a third of the grid's width by the grid's    *)
(* height; the size the platform gives is the platform's choice.                *)

MaxSurface == 2

\* WindowEvent::RedrawRequested with the window's inner size sw by sh:
\* NonZeroU32::new(0).unwrap() panics, else draw fills sw * sh pixels
RedrawRequested(sw, sh) ==
    IF sw = 0 \/ sh = 0
    THEN /\ pc = "idle"
         /\ pc' = "trap"
         /\ ret' = Call("resize", sw, sh, FALSE, 0, {}, TRUE)
         /\ UNCHANGED <<obs, drv, width, height, cells_current, cells_next, local_next,
                        pending, gen, seed, snap, pixels>>
    ELSE draw(sw * sh)

\* a redraw of a window of any small size
RedrawSized == \E sw \in 0..MaxSurface, sh \in 0..MaxSurface : RedrawRequested(sw, sh)

RenderDims == {<<0, 1>>, <<3, 1>>, <<3, 2>>, <<4, 2>>, <<6, 2>>}

RenderLive == 3

RenderSeed == SeedCell(RenderLive)

InitRender == \E d \in RenderDims : new(d[1], d[2])

NextRender == RenderSeed \/ Tick \/ Redraw \/ RedrawSized

SpecRender == InitRender /\ [][NextRender]_vars

\* C12: draw is total under the sizing invariant. When the grid's width is a multiple
\* of 3 and the pixel buffer is width/3 by height, then for every pixel p, at column
\* px and row py of the screen, the three cells draw samples are columns 3px, 3px+1,
\* 3px+2 of row py of the grid: x+2 < width, all three linear indices are below
\* width*height, and draw does not panic.
C12_RenderTotal ==
    (ret.op = "draw" /\ width % 3 = 0 /\ ret.x = (width \div 3) * height) =>
        /\ ~ret.panic
        /\ pc # "trap"
        /\ \A p \in 0..(ret.x - 1) :
              LET px == p % (width \div 3)
                  py == p \div (width \div 3)
              IN  /\ PixelX(p) = 3 * px
                  /\ PixelY(p) = py
                  /\ PixelX(p) + 2 < width
                  /\ py < height
                  /\ PixelReads(p) = {3 * px + k + py * width : k \in 0..2}
                  /\ \A i \in PixelReads(p) : i < width * height
                                                /\ i \in DOMAIN cells_current

C12_Witness ==
    /\ ret.op = "draw" /\ ~ret.panic
    /\ width = 6 /\ height = 2
    /\ ret.x = 4
    /\ pixels # None
    /\ PixelReads(3) = {9, 10, 11}
    /\ cells_current[11]

\* the pixel that the cells 3p, 3p+1, 3p+2 of a buffer stand for
RefPixel(cells, p) ==
    <<65280 + Channel(cells[3 * p]),
      256 * Channel(cells[3 * p + 1]) + Channel(cells[3 * p + 2])>>

\* C13: draw(pixels) changes the pixel buffer only. The current buffer, the next
\* buffer, the width and the height are what they were before the call, and the next
\* buffer is never read: the pixels written are those of the current buffer alone.
C13_DrawFrame ==
    [][ret'.op = "draw" =>
          /\ cells_current' = cells_current
          /\ cells_next' = cells_next
          /\ local_next' = local_next
          /\ width' = width
          /\ height' = height
          /\ gen' = gen
          /\ ~ret'.panic =>
                pixels' = Some([p \in 0..(ret'.x - 1) |-> RefPixel(cells_current, p)])]_vars

C13_Witness ==
    /\ ret.op = "draw" /\ ~ret.panic
    /\ gen > 0
    /\ cells_next # Some(cells_current)
    /\ \E p \in DOMAIN Unwrap(pixels) :
          /\ Unwrap(pixels)[p] # Opaque
          /\ Unwrap(pixels)[p] # RefPixel(Unwrap(cells_next), p)

-----------------------------------------------------------------------------
(* Editing cells between generations: set_cell is callable whenever no tick is  *)
(* running, so the next buffer it must leave alone holds the previous           *)
(* generation.                                                                  *)

EditDims == {<<2, 2>>, <<3, 2>>}

EditLive == 1

EditGen == 1

\* set_cell with coordinates of the grid and either value
EditCell ==
    /\ NumLive(cells_current) <= EditLive
    /\ \E x \in 0..(width - 1), y \in 0..(height - 1), value \in BOOLEAN :
         set_cell(x, y, value)

\* tick() for the first EditGen generations
EditTick == gen < EditGen /\ Tick

InitEdit == \E d \in EditDims : new(d[1], d[2])

NextEdit == EditCell \/ EditTick

SpecEdit == InitEdit /\ [][NextEdit]_vars

\* C20: for coordinates of the grid, set_cell(x, y, v) sets the cell x + y*width of
\* the current buffer to v and leaves every other cell of it and the whole next buffer
\* as they were; distinct coordinates of the grid have distinct indices x + y*width;
\* and the coordinates tick() recovers from an index i, (i mod width, i div width),
\* are coordinates of the grid that map back to i.
C20_SetCellFrame ==
    /\ [](/\ \A x1, x2 \in 0..(width - 1), y1, y2 \in 0..(height - 1) :
                index(x1, y1) = index(x2, y2) => (x1 = x2 /\ y1 = y2)
          /\ \A i \in DOMAIN cells_current :
                /\ CellX(i) < width
                /\ CellY(i) < height
                /\ index(CellX(i), CellY(i)) = i)
    /\ [][(ret'.op = "set_cell" /\ ret'.x < width /\ ret'.y < height) =>
             /\ ~ret'.panic
             /\ ret'.reads = {ret'.x + ret'.y * width}
             /\ cells_current' =
                   [cells_current EXCEPT ![ret'.x + ret'.y * width] = ret'.value]
             /\ \A x \in 0..(width - 1), y \in 0..(height - 1) :
                   (x # ret'.x \/ y # ret'.y) => cells_current'[index(x, y)]
                                                     = cells_current[index(x, y)]
             /\ cells_next' = cells_next
             /\ width' = width /\ height' = height]_vars

C20_Witness ==
    /\ ret.op = "set_cell" /\ ~ret.panic
    /\ width = 3 /\ height = 2
    /\ ret.x = 1 /\ ret.y = 1 /\ ~ret.value
    /\ gen > 0
    /\ ~cells_current[4]
    /\ Unwrap(cells_next)[4]
    /\ NumLive(cells_current) > 0

-----------------------------------------------------------------------------
(* Claims about the tasks of one tick()                                         *)

\* the indices the tasks have written so far
Written == {w[3] : w \in obs.writes}

\* C15: race freedom. Each task of a tick() writes one element of the next buffer and
\* nothing else, no two tasks write the same element, no task writes the current
\* buffer, and when the tasks are done every index below width*height has been
\* written by exactly one task.
C15_RaceFree ==
    pc \in {"tick", "restored"} =>
        /\ \A w \in obs.writes : w[2] = "next" /\ w[3] \in 0..(width * height - 1)
        /\ \A w1, w2 \in obs.writes : (w1[1] = w2[1] \/ w1[3] = w2[3]) => w1 = w2
        /\ cells_current = snap
        /\ pc = "tick" =>
              {w[1] : w \in obs.writes} = DOMAIN cells_current \ pending
        /\ pc = "restored" =>
              /\ Written = 0..(width * height - 1)
              /\ Cardinality(obs.writes) = width * height

C15_Witness ==
    /\ pc = "restored"
    /\ width = 3 /\ height = 2
    /\ Cardinality(obs.writes) = 6
    /\ NumLive(cells_current) >= 3
    /\ NumLive(Unwrap(cells_next)) > 0
    /\ Unwrap(cells_next) # cells_current

\* C16: the swap barrier. In every interleaving the buffers are exchanged only after
\* every task of the call has written its element, once for each tick() begun, in the
\* sequential code of tick() after the tasks are joined; no task runs after the
\* exchange.
C16_SwapBarrier ==
    /\ [](/\ pc = "idle" => (obs.begun = gen /\ pending = {})
          /\ pc \in {"tick", "restored"} => obs.begun = gen + 1
          /\ pc = "restored" => pending = {})
    /\ [][(gen' # gen \/ (ret'.op = "tick" /\ cells_current' # cells_current)) =>
             /\ pc = "restored" /\ pc' = "idle"
             /\ pending = {}
             /\ Written = DOMAIN cells_current
             /\ gen' = gen + 1
             /\ obs'.begun = gen'
             /\ cells_current' = Unwrap(cells_next)
             /\ cells_next' = Some(cells_current)]_vars
    /\ [][obs'.writes # obs.writes => (pc = "idle" /\ pc' = "tick" /\ obs'.writes = {})
                                        \/ (pc = "tick" /\ pc' = "tick")]_vars

C16_Witness ==
    /\ pc = "idle"
    /\ gen = 2 /\ obs.begun = 2
    /\ width = 3 /\ height = 2
    /\ Written = 0..5
    /\ NumLive(cells_current) > 0
    /\ Unwrap(cells_next) # cells_current

-----------------------------------------------------------------------------
(* Termination of tick(): rayon runs every task it was given and for_each       *)
(* returns when all have run, so each enabled step of a tick() is taken in      *)
(* the end.                                                                     *)

FairDims == {<<1, 1>>, <<2, 2>>, <<3, 2>>}

InitFair == \E d \in FairDims : new(d[1], d[2])

SpecTickFair ==
    /\ InitFair
    /\ [][NextTick]_vars
    /\ WF_vars(TickTask)
    /\ WF_vars(TickRestore)
    /\ WF_vars(TickSwap)

\* C19: every tick() begun terminates when its tasks are scheduled fairly: all the
\* writes are made, the buffers are exchanged and the call returns with the next
\* buffer back in its field; the grid is never left mid-step with the next buffer taken.
C19_TickTerminates ==
    (pc = "tick" /\ cells_next = None) ~>
        (pc = "idle" /\ cells_next # None /\ pending = {} /\ obs.begun = gen)

C19_Witness ==
    /\ pc = "idle"
    /\ gen = 2
    /\ cells_next # None
    /\ width = 3 /\ height = 2
    /\ Cardinality(obs.writes) = 6
    /\ NumLive(cells_current) >= 3

-----------------------------------------------------------------------------
(* run(): the event loop.  One thread handles one event at a time; tick() is    *)
(* called from the handler of AboutToWait and returns before the next event is  *)
(* handled.  Time is counted in units of which a frame, 1/144 s, is FrameTime.  *)

FrameTime == 2

MaxTime == 4

\* the physical keys of a KeyboardInput event
KeyUnidentified == 0
KeySpace == 1
KeyOther == 2

Keys == {KeyUnidentified, KeySpace, KeyOther}

\* the locals of run() when the event loop starts: next_frame = Instant::now(),
\* paused = false; no tick yet (last_tick, gap: the time of the latest call of tick()
\* and the time between the latest two)
DrvStart ==
    [hpc |-> "wait", paused |-> FALSE, now |-> 0, next_frame |-> 0, gen0 |-> 0,
     last_tick |-> -1, gap |-> -1]

\* main calls run(game, ...): the window is made and the loop starts
RunStart ==
    /\ drv = DrvOff
    /\ pc = "idle"
    /\ drv' = DrvStart
    /\ ret' = Call("run", 0, 0, FALSE, 0, {}, FALSE)
    /\ UNCHANGED <<obs, width, height, cells_current, cells_next, local_next, pending, pc,
                   gen, seed, snap, pixels>>

\* the clock advances while the loop waits
TimePasses ==
    /\ drv.hpc = "wait"
    /\ drv.now < MaxTime
    /\ drv' = [drv EXCEPT !.now = @ + 1]
    /\ UNCHANGED <<obs, width, height, cells_current, cells_next, local_next, pending, pc,
                   gen, seed, snap, pixels, ret>>

\* Event::AboutToWait with the condition of line 162 true, whatever `paused` is
AboutToWaitTickUngated ==
    /\ drv.hpc = "wait"
    /\ pc = "idle"
    /\ gen < MaxGen
    /\ drv.now >= drv.next_frame
    /\ drv' = [drv EXCEPT !.hpc = "tick", !.gen0 = gen, !.last_tick = drv.now,
                          !.gap = IF drv.last_tick < 0 THEN -1 ELSE drv.now - drv.last_tick]
    /\ ret' = Call("AboutToWait", 0, 0, TRUE, 0, {}, FALSE)
    /\ UNCHANGED <<obs, width, height, cells_current, cells_next, local_next, pending, pc,
                   gen, seed, snap, pixels>>

\* Event::AboutToWait, Instant::now() >= next_frame && !paused: app.tick() is called
AboutToWaitTick ==
    /\ drv.hpc = "wait"
    /\ pc = "idle"
    /\ gen < MaxGen
    /\ drv.now >= drv.next_frame /\ ~drv.paused
    /\ drv' = [drv EXCEPT !.hpc = "tick", !.gen0 = gen, !.last_tick = drv.now,
                          !.gap = IF drv.last_tick < 0 THEN -1 ELSE drv.now - drv.last_tick]
    /\ ret' = Call("AboutToWait", 0, 0, TRUE, 0, {}, FALSE)
    /\ UNCHANGED <<obs, width, height, cells_current, cells_next, local_next, pending, pc,
                   gen, seed, snap, pixels>>

\* the call app.tick() of the handler begins
RunTickBegin ==
    /\ drv.hpc = "tick"
    /\ drv.gen0 = gen
    /\ TickBegin

\* app.tick() has returned: window.request_redraw(); next_frame += frame_time;
\* set_control_flow(WaitUntil(next_frame))
AboutToWaitEnd ==
    /\ drv.hpc = "tick"
    /\ pc = "idle"
    /\ gen = drv.gen0 + 1
    /\ drv' = [drv EXCEPT !.hpc = "wait", !.next_frame = @ + FrameTime]
    /\ UNCHANGED <<obs, width, height, cells_current, cells_next, local_next, pending, pc,
                   gen, seed, snap, pixels, ret>>

\* Event::AboutToWait too early or while paused: set_control_flow only
AboutToWaitIdle ==
    /\ drv.hpc = "wait"
    /\ pc = "idle"
    /\ ~(drv.now >= drv.next_frame /\ ~drv.paused)
    /\ ret' = Call("AboutToWait", 0, 0, FALSE, 0, {}, FALSE)
    /\ UNCHANGED <<obs, drv, width, height, cells_current, cells_next, local_next, pending,
                   pc, gen, seed, snap, pixels>>

\* WindowEvent::RedrawRequested on the window main asked for, whatever tick() is doing
RunRedrawMidTick ==
    /\ drv.hpc \in {"wait", "tick"}
    /\ pixels' = Some([p \in 0..(ScreenPixels - 1) |-> PixelColor(p)])
    /\ ret' = Call("draw", ScreenPixels, 0, FALSE, 0, {}, FALSE)
    /\ UNCHANGED <<obs, drv, width, height, cells_current, cells_next, local_next, pending,
                   pc, gen, seed, snap>>

\* WindowEvent::RedrawRequested on the window main asked for
RunRedraw ==
    /\ drv.hpc = "wait"
    /\ Redraw

\* WindowEvent::KeyboardInput: an unidentified key panics, Space released toggles
\* `paused`, any other key or a press does nothing
KeyboardInput(key, pressed) ==
    /\ drv.hpc = "wait"
    /\ pc = "idle"
    /\ IF key = KeyUnidentified
       THEN /\ pc' = "trap"
            /\ drv' = drv
            /\ ret' = Call("KeyboardInput", key, 0, pressed, 0, {}, TRUE)
       ELSE /\ pc' = pc
            /\ drv' = IF key = KeySpace /\ ~pressed
                      THEN [drv EXCEPT !.paused = ~@] ELSE drv
            /\ ret' = Call("KeyboardInput", key, 0, pressed, 0, {}, FALSE)
    /\ UNCHANGED <<obs, width, height, cells_current, cells_next, local_next, pending, gen,
                   seed, snap, pixels>>

KeyEvent == \E key \in Keys, pressed \in BOOLEAN : KeyboardInput(key, pressed)

\* WindowEvent::Resized: window.request_redraw()
Resized ==
    /\ drv.hpc = "wait"
    /\ pc = "idle"
    /\ ret' = Call("Resized", 0, 0, FALSE, 0, {}, FALSE)
    /\ UNCHANGED <<obs, drv, width, height, cells_current, cells_next, local_next, pending,
                   pc, gen, seed, snap, pixels>>

\* WindowEvent::CloseRequested: target.exit()
CloseRequested ==
    /\ drv.hpc = "wait"
    /\ pc = "idle"
    /\ drv' = [drv EXCEPT !.hpc = "exit"]
    /\ ret' = Call("CloseRequested", 0, 0, FALSE, 0, {}, FALSE)
    /\ UNCHANGED <<obs, width, height, cells_current, cells_next, local_next, pending, pc,
                   gen, seed, snap, pixels>>

RunDims == {<<3, 1>>}

RunLive == 3

\* main seeds the grid before it calls run
RunSeed == drv = DrvOff /\ SeedCell(RunLive)

InitRun == \E d \in RunDims : new(d[1], d[2])

NextRun ==
    \/ RunSeed
    \/ RunStart
    \/ TimePasses
    \/ AboutToWaitTick
    \/ RunTickBegin
    \/ TickTask
    \/ TickRestore
    \/ TickSwap
    \/ AboutToWaitEnd
    \/ AboutToWaitIdle
    \/ RunRedraw
    \/ KeyEvent
    \/ Resized
    \/ CloseRequested

SpecRun == InitRun /\ [][NextRun]_vars

-----------------------------------------------------------------------------
(* Claims about the event loop                                                  *)

\* the grid after `gen` whole generations from the seed
Generation == IF gen = 0 THEN cells_current ELSE SeqRun(seed, gen)

\* the pixels that a buffer of cells stands for on the window main asked for
Rendered(cells) == Some([p \in 0..(ScreenPixels - 1) |-> RefPixel(cells, p)])

\* C14: the renderer observes complete generations only. Every draw reads a current
\* buffer that is the grid after a whole number of completed tick() calls from the
\* seed, no draw runs while a tick() is in progress, and the current buffer passes from
\* one generation to the next in one step, the exchange.
C14_WholeGenerations ==
    /\ []((ret.op = "draw" /\ drv # DrvOff) =>
            /\ pc = "idle" /\ drv.hpc # "tick"
            /\ pending = {} /\ cells_next # None
            /\ obs.begun = gen
            /\ cells_current = Generation
            /\ pixels = Rendered(Generation))
    /\ [][(drv # DrvOff /\ cells_current' # cells_current) =>
             /\ pc = "restored" /\ pc' = "idle"
             /\ gen' = gen + 1
             /\ cells_current = Generation
             /\ cells_current' = SeqStep(cells_current)]_vars

C14_Witness ==
    /\ ret.op = "draw" /\ drv # DrvOff
    /\ gen = 1
    /\ NumLive(seed) = 3
    /\ NumLive(cells_current) = 1
    /\ pixels = Some([p \in {0} |-> <<65280, 65280>>])

\* C17: pause gating. run() calls tick() only while `paused` is false; while it is true
\* the current buffer does not change and a redraw renders the same generation again;
\* `paused` is toggled by each release of the Space key and by no other event.
C17_PauseGating ==
    /\ []((drv # DrvOff /\ drv.paused) => (pc \in {"idle", "trap"} /\ drv.hpc # "tick"))
    /\ [][(drv # DrvOff /\ pc = "idle" /\ pc' = "tick") => ~drv.paused]_vars
    /\ [][(drv # DrvOff /\ drv.paused /\ drv'.paused) =>
             /\ cells_current' = cells_current
             /\ cells_next' = cells_next
             /\ gen' = gen
             /\ ret'.op = "draw" => pixels' = Rendered(cells_current)]_vars
    /\ [][drv # DrvOff =>
             (drv'.paused # drv.paused <=>
                 /\ ret'.op = "KeyboardInput"
                 /\ ret'.x = KeySpace /\ ~ret'.value /\ ~ret'.panic
                 /\ drv'.now = drv.now)]_vars

C17_Witness ==
    /\ drv # DrvOff
    /\ drv.paused
    /\ drv.now >= drv.next_frame + FrameTime
    /\ ret.op = "draw"
    /\ gen = 1
    /\ NumLive(cells_current) = 1
    /\ pixels = Rendered(cells_current)

\* C18: fixed tick interval. Any two consecutive calls of tick() are at least one frame
\* interval apart in elapsed time, also after a pause or a tick delivered late.
C18_FrameInterval ==
    (drv # DrvOff /\ drv.gap >= 0) => drv.gap >= FrameTime

====
